---- MODULE Spec2Model ----
(***************************************************************************)
(* Model of d3blocks/violin/Violin.py: the configuration builder           *)
(* (set_config), the label extractor (set_labels, set_node_properties),    *)
(* the data preparer (set_edge_properties) and the renderer (show,         *)
(* get_data_ready_for_d3, write_html).                                     *)
(*                                                                         *)
(* Representation.                                                         *)
(*   - A Python str is a sequence of one-character strings, so that        *)
(*     substring tests, "|".join and str(list) are computed, not assumed.  *)
(*   - A nullable value is a sequence of length <= 1: <<>> is None and     *)
(*     <<v>> is the value v.                                               *)
(*   - A Python dict is a record [keys, items]: keys in insertion order.   *)
(*   - The outcome of a call is a record [exc, desc, val]: exc = "none"    *)
(*     when the call returned val, else the class of the exception that    *)
(*     left the call and desc the argument the exception was built with.   *)
(***************************************************************************)
EXTENDS Integers, Sequences, FiniteSets, TLC

VARIABLES
    lpc, labels, dict_labels,         \* a call of set_node_properties
    epc, eargs, eret,                 \* a call of set_edge_properties
    cpc, cargs, cret,                 \* a call of set_config on its own
    heap,                             \* the configuration dicts of a session, by object
    returned,                         \* the dicts set_config has returned to the caller
    df,                               \* the record set the caller holds
    node_properties,                  \* the label properties the caller holds
    fs,                               \* the files on disk: path -> contents
    last,                             \* the last call of the session and how it ended
    calls                             \* number of calls made in the session

labelVars == <<lpc, labels, dict_labels>>
edgeVars == <<epc, eargs, eret>>
configVars == <<cpc, cargs, cret>>
sessionVars == <<heap, returned, df, node_properties, fs, last, calls>>
vars == <<lpc, labels, dict_labels, epc, eargs, eret, cpc, cargs, cret,
          heap, returned, df, node_properties, fs, last, calls>>

----------------------------------------------------------------------------
(* Generic helpers *)

None == <<>>
Some(v) == <<v>>
Range(s) == {s[i] : i \in 1..Len(s)}

RECURSIVE SeqsUpTo(_, _)
\* all sequences over S of length 0..n
SeqsUpTo(S, n) ==
    IF n = 0 THEN {<<>>}
    ELSE LET shorter == SeqsUpTo(S, n - 1)
         IN  shorter \cup {Append(s, e) : s \in {t \in shorter : Len(t) = n - 1}, e \in S}

RECURSIVE sorted(_)
\* Python sorted() of a collection of distinct integers
sorted(S) ==
    IF S = {} THEN <<>>
    ELSE LET m == CHOOSE x \in S : \A y \in S : x <= y
         IN  <<m>> \o sorted(S \ {m})

\* The logger argument: "none" is logger=None, "logger" a logging.Logger.
Loggers == {"none", "logger"}

\* An outcome: the call returned val
Return(val) == [exc |-> "none", desc |-> None, val |-> val]

\* `raise Exception(logger.error(msg))`: the argument is evaluated first.
\* With logger=None the attribute lookup raises AttributeError; with a
\* logging.Logger, error() logs msg and returns None, so the exception is
\* built as Exception(None) and carries no description.
RaiseLoggerError(logger, msg, noval) ==
    IF logger = "none"
    THEN [exc |-> "AttributeError", desc |-> Some("'NoneType' object has no attribute 'error'"), val |-> noval]
    ELSE [exc |-> "Exception", desc |-> None, val |-> noval]

\* `logger.info(msg)` with no None check: raises AttributeError for logger=None
LoggerInfoRaises(logger) == logger = "none"

AttributeErrorInfo(noval) ==
    [exc |-> "AttributeError", desc |-> Some("'NoneType' object has no attribute 'info'"), val |-> noval]

----------------------------------------------------------------------------
(* Python dict with insertion order *)

EmptyDict == [keys |-> <<>>, items |-> <<>>]

\* d[k] = v : a new key is appended, an existing key keeps its position.
\* items is a sequence parallel to keys.
DictSet(d, k, v) ==
    IF k \in Range(d.keys)
    THEN [d EXCEPT !.items = [i \in 1..Len(d.keys) |-> IF d.keys[i] = k THEN v ELSE d.items[i]]]
    ELSE [keys |-> Append(d.keys, k), items |-> Append(d.items, v)]

----------------------------------------------------------------------------
(* Configuration builder: set_config *)

\* config['x_order'] is None, a list of str, or (after show) a str
XNone == [t |-> "none", v |-> <<>>]
PyList(v) == [t |-> "list", v |-> v]
PyStr(v) == [t |-> "str", v |-> v]

\* a file path: directory part, file name, and whether set_path normalized it
Path(dirname, filename) == [dirname |-> dirname, filename |-> filename, normalized |-> FALSE]

\* utils.set_path: the normalized path, with a default file name when the
\* given path has none
set_path(p) ==
    [dirname |-> p.dirname,
     filename |-> IF p.filename = "" THEN "d3blocks.html" ELSE p.filename,
     normalized |-> TRUE]

\* kwargs.get(k, default)
KwGet(kwargs, k, default) == IF k \in DOMAIN kwargs THEN kwargs[k] ELSE default

ChartValueMut(kwargs) == KwGet(kwargs, "chart", "violin")

\* config['chart'] = 'violin' : not read from kwargs
ChartValue(kwargs) == "violin"

\* the values set_config assigns, key by key
ConfigAssignments(kwargs) ==
    [chart            |-> ChartValue(kwargs),
     title            |-> KwGet(kwargs, "title", "Violin - D3blocks"),
     filepath         |-> set_path(KwGet(kwargs, "filepath", Path("", "violin.html"))),
     figsize          |-> KwGet(kwargs, "figsize", <<None, None>>),
     showfig          |-> KwGet(kwargs, "showfig", TRUE),
     overwrite        |-> KwGet(kwargs, "overwrite", TRUE),
     bins             |-> KwGet(kwargs, "bins", 20),
     cmap             |-> KwGet(kwargs, "cmap", "inferno"),
     ylim             |-> KwGet(kwargs, "ylim", <<None, None>>),
     x_order          |-> KwGet(kwargs, "x_order", XNone),
     reset_properties |-> KwGet(kwargs, "reset_properties", TRUE)]

\* set_config(config, **kwargs): the dict `config` after the assignments; the
\* same dict object is returned.  Keys it held before and that are not
\* assigned stay.
set_config(config, kwargs) ==
    LET new == ConfigAssignments(kwargs)
    IN  [k \in (DOMAIN config) \cup (DOMAIN new) |->
            IF k \in DOMAIN new THEN new[k] ELSE config[k]]

\* the dict {}
EmptyConfig == [k \in {} |-> TRUE]

----------------------------------------------------------------------------
(* Strings and the regular-expression search of pandas str.contains *)

\* sub occurs in s
IsSubstring(sub, s) ==
    \E i \in 0..(Len(s) - Len(sub)) : SubSeq(s, i + 1, i + Len(sub)) = sub

RECURSIVE Join(_, _)
\* sep.join(list)
Join(list, sep) ==
    IF Len(list) = 0 THEN <<>>
    ELSE IF Len(list) = 1 THEN list[1]
    ELSE list[1] \o sep \o Join(Tail(list), sep)

RECURSIVE Alternatives(_, _)
\* the alternatives of a pattern made of literal characters and "|";
\* cur is the alternative being read
Alternatives(pat, cur) ==
    IF Len(pat) = 0 THEN {cur}
    ELSE IF Head(pat) = "|" THEN {cur} \cup Alternatives(Tail(pat), <<>>)
    ELSE Alternatives(Tail(pat), Append(cur, Head(pat)))

str_containsMut(s, pat) == TRUE

\* Series.str.contains(pat) on one cell: re.search(pat, s), for a pattern of
\* literal characters and "|"
str_contains(s, pat) ==
    \E alt \in Alternatives(pat, <<>>) : IsSubstring(alt, s)

----------------------------------------------------------------------------
(* Data preparer: set_edge_properties *)

\* a value of the y column: missing, a number, or (after astype(str)) the
\* text of a number.  A value of the tooltip column is None or Some(text).
NaN == [kind |-> "nan", v |-> 0]
Num(v) == [kind |-> "num", v |-> v]
isna(cell) == cell.kind = "nan"

\* an argument that may be None, a scalar or a per-row list; val holds the
\* scalar as its only element, or the list
ArgNone == [kind |-> "none", val |-> <<>>]
Scalar(v) == [kind |-> "scalar", val |-> <<v>>]
PerRow(vs) == [kind |-> "list", val |-> vs]

\* isinstance(arg, (list, np.ndarray)) and len(arg) != len(x)
BadLength(arg, x) == arg.kind = "list" /\ Len(arg.val) # Len(x)

\* the value of a column in row i: a scalar is broadcast
Cell(arg, i) == IF arg.kind = "list" THEN arg.val[i] ELSE arg.val[1]

\* colourmap.fromlist(y, scheme='hex', cmap=cmap)[0] for one value: a colour
\* that is a function of the value and the scheme
colourmap_fromlist(ycell, cmap) == <<"hex", cmap, ycell.v>>

\* pd.DataFrame({'x': x, 'y': y, 'color': color, ...}): one row per element of
\* x, the index 0..n-1
DataFrame(a) ==
    [i \in 1..Len(a.x) |->
        [index   |-> i - 1,
         x       |-> a.x[i],
         y       |-> a.y[i],
         color   |-> IF a.color.kind = "none" THEN None ELSE Some(Cell(a.color, i)),
         size    |-> Cell(a.size, i),
         stroke  |-> Cell(a.stroke, i),
         opacity |-> Cell(a.opacity, i),
         tooltip |-> Cell(a.tooltip, i)]]

\* df.reset_index(inplace=True, drop=True)
reset_index(frame) == [i \in 1..Len(frame) |-> [frame[i] EXCEPT !.index = i - 1]]

NoFrame == <<>>

\* lines 104-121, after the checks.  df.loc[mask, :] keeps the rows of the
\* mask with their index labels (SelectSeq).
EdgeProcessing(a) ==
    LET df0      == DataFrame(a)
        anyrem   == \E i \in 1..Len(df0) : isna(df0[i].y)
        NotNa(r) == ~isna(r.y)
        df1      == IF anyrem THEN SelectSeq(df0, NotNa) ELSE df0
        xo       == a.config["x_order"]
        classes  == Join(xo.v, <<"|">>)
        InClasses(r) == str_contains(r.x, classes)
        df2      == IF xo.t # "none" THEN SelectSeq(df1, InClasses) ELSE df1
        df3      == IF a.color.kind = "none"
                    THEN [i \in 1..Len(df2) |->
                            [df2[i] EXCEPT !.color = Some(colourmap_fromlist(df2[i].y, a.config["cmap"]))]]
                    ELSE df2
    IN  IF anyrem /\ LoggerInfoRaises(a.logger) THEN AttributeErrorInfo(NoFrame)
        ELSE IF xo.t # "none" /\ LoggerInfoRaises(a.logger) THEN AttributeErrorInfo(NoFrame)
        ELSE IF LoggerInfoRaises(a.logger) THEN AttributeErrorInfo(NoFrame)
        ELSE Return(reset_index(df3))

\* a per-row tooltip of another length than x: pandas refuses to build the frame
FrameError(a) == BadLength(a.tooltip, a.x) \/ BadLength(a.color, a.x)

set_edge_properties(a) ==
    IF Len(a.x) # Len(a.y)
    THEN RaiseLoggerError(a.logger, "input parameter x should be of size of y.", NoFrame)
    ELSE IF a.size.kind = "none"
    THEN RaiseLoggerError(a.logger, "input parameter size should have value >0.", NoFrame)
    ELSE IF BadLength(a.size, a.x)
    THEN RaiseLoggerError(a.logger, "input parameter s should be of same size of (x, y).", NoFrame)
    ELSE IF a.stroke.kind = "none"
    THEN RaiseLoggerError(a.logger, "input parameter stroke should have hex value.", NoFrame)
    ELSE IF BadLength(a.stroke, a.x)
    THEN RaiseLoggerError(a.logger, "input parameter stroke should be of same size of (x, y).", NoFrame)
    ELSE IF a.opacity.kind = "none"
    THEN RaiseLoggerError(a.logger, "input parameter opacity should have value in range [0..1].", NoFrame)
    ELSE IF BadLength(a.opacity, a.x)
    THEN RaiseLoggerError(a.logger, "input parameter opacity should be of same size of (x, y).", NoFrame)
    ELSE IF FrameError(a)
    THEN [exc |-> "ValueError", desc |-> Some("All arrays must be of the same length"), val |-> NoFrame]
    ELSE EdgeProcessing(a)

\* Inputs of the data preparer
MaxRows == 2
MaxOrder == 2

XValues == {<<"a">>, <<"c", "a">>}
YValues == {NaN, Num(0), Num(10)}
OrderValues == {<<"a">>, <<"b">>}

\* None, a scalar, a per-row list of the length of x, or one element longer
ArgInputs(v, x) ==
    {ArgNone, Scalar(v), PerRow([i \in 1..Len(x) |-> v]), PerRow([i \in 1..(Len(x) + 1) |-> v])}

XOrderInputs == {XNone} \cup {PyList(o) : o \in SeqsUpTo(OrderValues, MaxOrder)}

EdgeIdle ==
    /\ epc = "idle"
    /\ eargs = <<>>
    /\ eret = <<>>

LabelsIdle ==
    /\ lpc = "idle"
    /\ labels = <<>>
    /\ dict_labels = <<>>

ConfigIdle ==
    /\ cpc = "idle"
    /\ cargs = <<>>
    /\ cret = <<>>

SessionIdle ==
    /\ heap = <<>>
    /\ returned = {}
    /\ df = <<>>
    /\ node_properties = <<>>
    /\ fs = <<>>
    /\ last = <<>>
    /\ calls = 0

EdgeInit ==
    /\ LabelsIdle
    /\ ConfigIdle
    /\ SessionIdle
    /\ epc = "call"
    /\ \E x \in SeqsUpTo(XValues, MaxRows), y \in SeqsUpTo(YValues, MaxRows),
          xo \in XOrderInputs, logger \in Loggers :
         \E size \in ArgInputs(5, x), stroke \in ArgInputs("#ffffff", x),
            opacity \in ArgInputs("0.8", x) :
            eargs = [x |-> x, y |-> y,
                     config |-> set_config(EmptyConfig, [k \in {"x_order"} |-> xo]),
                     color |-> ArgNone, size |-> size, stroke |-> stroke,
                     opacity |-> opacity, tooltip |-> Scalar(Some("")), logger |-> logger]
    /\ eret = <<>>

CallSetEdgeProperties ==
    /\ epc = "call"
    /\ epc' = "done"
    /\ eret' = set_edge_properties(eargs)
    /\ UNCHANGED <<eargs, labelVars, configVars, sessionVars>>

EdgeNext == CallSetEdgeProperties

SpecEdge == EdgeInit /\ [][EdgeNext]_vars

----------------------------------------------------------------------------
(* C2, C3, C4 *)

\* one of the seven violations the checks of set_edge_properties name
Violates(a) ==
    \/ Len(a.x) # Len(a.y)
    \/ a.size.kind = "none"
    \/ (a.size.kind = "list" /\ Len(a.size.val) # Len(a.x))
    \/ a.stroke.kind = "none"
    \/ (a.stroke.kind = "list" /\ Len(a.stroke.val) # Len(a.x))
    \/ a.opacity.kind = "none"
    \/ (a.opacity.kind = "list" /\ Len(a.opacity.val) # Len(a.x))

\* the positions of the input rows whose y is not missing, ascending
PresentRows(a) == sorted({i \in 1..Len(a.y) : a.y[i].kind # "nan"})

\* C2: a call whose inputs pass validation and whose config.x_order is null,
\* with or without a logger, returns exactly the input rows whose y is not
\* missing, in input order, indexed 0..n-1.
C2_DropsMissingRows ==
    (epc = "done" /\ ~Violates(eargs) /\ eargs.config["x_order"].t = "none") =>
        /\ eret.exc = "none"
        /\ Len(eret.val) = Len(PresentRows(eargs))
        /\ \A j \in 1..Len(eret.val) :
              /\ eret.val[j].index = j - 1
              /\ eret.val[j].x = eargs.x[PresentRows(eargs)[j]]
              /\ eret.val[j].y = eargs.y[PresentRows(eargs)[j]]
              /\ eret.val[j].y.kind # "nan"

\* C3: each of the seven violations makes the call fail with the validation
\* exception, carrying a description, and return no record set, whether or
\* not a logger is supplied.
C3_ValidationError ==
    (epc = "done" /\ Violates(eargs)) =>
        /\ eret.exc = "Exception"
        /\ eret.desc # None
        /\ eret.val = NoFrame

\* C4 as claimed, for a non-empty list: with config.x_order a list of allowed
\* categories, every returned row has an x that is one of the categories of
\* x_order.
C4_RowsAreAllowedCategories ==
    (/\ epc = "done" /\ eret.exc = "none"
     /\ eargs.config["x_order"].t = "list"
     /\ eargs.config["x_order"].v # <<>>) =>
        \A j \in 1..Len(eret.val) : eret.val[j].x \in Range(eargs.config["x_order"].v)

\* C4 as amended: with config.x_order a list of literal category names, every
\* returned row has an x in which one of the categories of x_order occurs as
\* a substring; with x_order the empty list the pattern is empty and matches
\* every x.
C4_RowsContainAllowedCategory ==
    (epc = "done" /\ eret.exc = "none" /\ eargs.config["x_order"].t = "list") =>
        \A j \in 1..Len(eret.val) :
            \/ eargs.config["x_order"].v = <<>>
            \/ \E c \in Range(eargs.config["x_order"].v) :
                  \E i \in 1..Len(eret.val[j].x) : \E k \in i..Len(eret.val[j].x) :
                      SubSeq(eret.val[j].x, i, k) = c

\* a filtered call that dropped a row and kept a row whose x only contains
\* the allowed category
C4_Witness ==
    /\ epc = "done"
    /\ eret.exc = "none"
    /\ eargs.config["x_order"] = PyList(<<(<<"a">>)>>)
    /\ eargs.x = <<(<<"c", "a">>), (<<"a">>)>>
    /\ eargs.y = <<Num(0), NaN>>
    /\ Len(eret.val) = 1
    /\ eret.val[1].x = <<"c", "a">>

----------------------------------------------------------------------------
(* Label extractor: set_labels, set_node_properties *)

MaxLabels == 3

LabelValues == {<<"a">>, <<"b">>, <<"c">>, <<"c", "a">>}

LabelInputs == SeqsUpTo(LabelValues, MaxLabels)

\* utils.pre_processing on a sequence of clean string labels: returned as is
pre_processing(ls) == ls

FirstIndexMut(ls, v) ==
    CHOOSE i \in 1..Len(ls) : ls[i] = v /\ \A j \in (i + 1)..Len(ls) : ls[j] # v

\* position of the first occurrence of v in ls
FirstIndex(ls, v) ==
    CHOOSE i \in 1..Len(ls) : ls[i] = v /\ \A j \in 1..(i - 1) : ls[j] # v

\* np.unique(labels, return_index=True)[1]: for each distinct value the index
\* of its first occurrence (the array is ordered by sorted value; the caller
\* only sorts it, so it is kept as a set)
unique_indexes(ls) == {FirstIndex(ls, ls[i]) : i \in 1..Len(ls)}

set_labels(ls, logger) ==
    LET pre     == pre_processing(ls)
        indexes == unique_indexes(pre)
        order   == sorted(indexes)
    IN  IF Len(pre) < 1
        THEN RaiseLoggerError(logger, "Could not extract the labels!", <<>>)
        ELSE Return([i \in 1..Len(order) |-> pre[order[i]]])

RECURSIVE EnumerateLabels(_, _, _)
\* for i, label in enumerate(uilabel): dict_labels[label] = {'id': i, 'label': label}
EnumerateLabels(uilabel, i, d) ==
    IF i >= Len(uilabel) THEN d
    ELSE EnumerateLabels(uilabel, i + 1,
                         DictSet(d, uilabel[i + 1], [id |-> i, label |-> uilabel[i + 1]]))

\* set_labels is called without the logger, so its logger is None
set_node_properties(ls) ==
    LET uilabel == set_labels(ls, "none")
    IN  IF uilabel.exc # "none"
        THEN [uilabel EXCEPT !.val = EmptyDict]
        ELSE Return(EnumerateLabels(uilabel.val, 0, EmptyDict))

LabelsInit ==
    /\ EdgeIdle
    /\ ConfigIdle
    /\ SessionIdle
    /\ lpc = "call"
    /\ labels \in LabelInputs
    /\ dict_labels = Return(EmptyDict)

CallSetNodeProperties ==
    /\ lpc = "call"
    /\ lpc' = "done"
    /\ dict_labels' = set_node_properties(labels)
    /\ UNCHANGED <<labels, edgeVars, configVars, sessionVars>>

LabelsNext == CallSetNodeProperties

SpecLabels == LabelsInit /\ [][LabelsNext]_vars

----------------------------------------------------------------------------
(* C1 *)

\* number of distinct labels whose first occurrence precedes that of l
Preceding(ls, l) ==
    Cardinality({m \in Range(ls) :
        (CHOOSE i \in 1..Len(ls) : ls[i] = m /\ \A j \in 1..(i - 1) : ls[j] # m)
      < (CHOOSE i \in 1..Len(ls) : ls[i] = l /\ \A j \in 1..(i - 1) : ls[j] # l)})

\* C1: for a non-empty label sequence set_node_properties returns a mapping
\* keyed by exactly the distinct labels, each key once; the id of a label is
\* the number of distinct labels first seen before it, the ids are 0..k-1, the
\* keys are in first-occurrence order and each record's label is its key.
C1_NodeProperties ==
    (lpc = "done" /\ Len(labels) >= 1) =>
        LET d == dict_labels.val
            k == Cardinality(Range(labels))
        IN  /\ dict_labels.exc = "none"
            /\ Range(d.keys) = Range(labels)
            /\ Len(d.keys) = k
            /\ \A i \in 1..Len(d.keys) :
                  /\ d.items[i].label = d.keys[i]
                  /\ d.items[i].id = Preceding(labels, d.keys[i])
                  /\ d.items[i].id = i - 1
            /\ {d.items[i].id : i \in 1..Len(d.keys)} = 0..(k - 1)

\* a call on a sequence with a repeated label that is not in sorted order
C1_Witness ==
    /\ lpc = "done"
    /\ labels = <<(<<"b">>), (<<"a">>), (<<"b">>)>>
    /\ dict_labels.exc = "none"
    /\ dict_labels.val.keys = <<(<<"b">>), (<<"a">>)>>

----------------------------------------------------------------------------
(* Renderer: show, get_data_ready_for_d3, write_html *)

\* spacing = 0.10, in percent
spacing == 10

\* utils.convert_dataframe_dict on an input already in the canonical shape:
\* the same object
convert_dataframe_dict(X) == X

RECURSIVE ReprItems(_)
ReprItems(list) ==
    IF Len(list) = 0 THEN <<>>
    ELSE IF Len(list) = 1 THEN <<"'">> \o list[1] \o <<"'">>
    ELSE <<"'">> \o list[1] \o <<"'", ",", " ">> \o ReprItems(Tail(list))

\* str(list) for a list of str: "['a', 'b']"
Repr(list) == <<"[">> \o ReprItems(list) \o <<"]">>

\* d[k] = v on a configuration dict
SetKey(d, k, v) == [j \in (DOMAIN d) \cup {k} |-> IF j = k THEN v ELSE d[j]]

\* df['y'].max() and df['y'].min() on a column of numbers
ColMax(frame) == CHOOSE m \in {frame[i].y.v : i \in 1..Len(frame)} :
                    \A i \in 1..Len(frame) : frame[i].y.v <= m
ColMin(frame) == CHOOSE m \in {frame[i].y.v : i \in 1..Len(frame)} :
                    \A i \in 1..Len(frame) : m <= frame[i].y.v

\* a column of str: max() and min() are str, and their difference raises
YIsStr(frame) == \E i \in 1..Len(frame) : frame[i].y.kind = "str"

NeedYlimMut(config) == TRUE

\* config['ylim']==[None, None] or len(config['ylim'])==0
NeedYlim(config) == config["ylim"] = <<None, None>> \/ Len(config["ylim"]) = 0

\* lines 153-154
ComputeYlim(frame) ==
    LET y_spacing == ((ColMax(frame) - ColMin(frame)) * spacing) \div 100
    IN  <<Some(ColMin(frame) - y_spacing), Some(ColMax(frame) + y_spacing)>>

\* line 157: str([*node_properties.keys()])
AutoXOrder(np) == PyStr(Repr(np.keys))

\* np.all(df['tooltip']=='') or np.all(df['tooltip'].isna())
NoTooltip(frame) ==
    \/ \A i \in 1..Len(frame) : frame[i].tooltip = Some("")
    \/ \A i \in 1..Len(frame) : frame[i].tooltip = None

\* lines 152-171: the configuration after the layout defaults
Finalize(frame, config, np) ==
    LET c1 == IF NeedYlim(config) THEN [config EXCEPT !["ylim"] = ComputeYlim(frame)] ELSE config
        c2 == IF c1["x_order"].t = "none" THEN [c1 EXCEPT !["x_order"] = AutoXOrder(np)] ELSE c1
        c3 == IF c2["figsize"][1] = None
              THEN [c2 EXCEPT !["figsize"][1] = Some(Len(np.keys) * 95)] ELSE c2
        c4 == IF c3["figsize"][2] = None
              THEN [c3 EXCEPT !["figsize"][2] = Some(400)] ELSE c3
        off == NoTooltip(frame)
        c5 == SetKey(c4, "mouseover", IF off THEN "" ELSE ".on(\"mouseover\", mouseover)")
        c6 == SetKey(c5, "mousemove", IF off THEN "" ELSE ".on(\"mousemove\", mousemove)")
    IN  SetKey(c6, "mouseleave", IF off THEN "" ELSE ".on(\"mouseleave\", mouseleave)")

\* astype(str) on one value of the y column
\* (the text of a number, or 'nan'; a str stays as it is)
astype_str(cell) == IF cell.kind = "str" THEN cell
                    ELSE [kind |-> "str", v |-> cell.v, of |-> cell.kind]

\* get_data_ready_for_d3: the frame with y coerced to str in place, and X, the
\* records of the columns x, y, color, size, stroke, opacity, tooltip
get_data_ready_for_d3(frame) ==
    LET coerced == [i \in 1..Len(frame) |-> [frame[i] EXCEPT !.y = astype_str(@)]]
    IN  [df |-> coerced,
         X  |-> [i \in 1..Len(coerced) |->
                    [x |-> coerced[i].x, y |-> coerced[i].y, color |-> coerced[i].color,
                     size |-> coerced[i].size, stroke |-> coerced[i].stroke,
                     opacity |-> coerced[i].opacity, tooltip |-> coerced[i].tooltip]]]

\* the text jinja2 puts for {{ X_ORDER }}: str() of the value
RenderXOrder(xo) == IF xo.t = "list" THEN Repr(xo.v) ELSE
                    IF xo.t = "str" THEN xo.v ELSE <<"N", "o", "n", "e">>

\* the substitutions of write_html, as rendered into the template
Content(X, config) ==
    [json_data  |-> X,
     TITLE      |-> config["title"],
     WIDTH      |-> config["figsize"][1],
     HEIGHT     |-> config["figsize"][2],
     MIN_Y      |-> config["ylim"][1],
     MAX_Y      |-> config["ylim"][2],
     X_ORDER    |-> RenderXOrder(config["x_order"]),
     BINS       |-> config["bins"],
     WIDTH_FIG  |-> config["figsize"][1],
     HEIGHT_FIG |-> config["figsize"][2],
     MOUSEOVER  |-> config["mouseover"],
     MOUSEMOVE  |-> config["mousemove"],
     MOUSELEAVE |-> config["mouseleave"]]

\* os.remove(path)
Remove(files, path) == [q \in (DOMAIN files) \ {path} |-> files[q]]

\* open(path, "w") ... f.write(text)
WriteFile(files, path, text) ==
    [q \in (DOMAIN files) \cup {path} |-> IF q = path THEN text ELSE files[q]]

\* write_html: the files after the call
write_html(X, config, logger, files) ==
    LET index_file == config["filepath"]
        removed    == IF config["overwrite"] /\ index_file \in DOMAIN files
                      THEN Remove(files, index_file) ELSE files
    IN  WriteFile(removed, index_file, Content(X, config))

\* show(df, config=config, node_properties=node_properties, logger=logger):
\* how the call ends, and the configuration dict, the record set and the files
\* after it.  The difference of two str at line 153 raises TypeError before
\* anything is changed.
show(frame0, config, np0, logger, files) ==
    LET np    == convert_dataframe_dict(np0)
        frame == convert_dataframe_dict(frame0)
    IN  IF NeedYlim(config) /\ YIsStr(frame)
        THEN [exc |-> "TypeError", config |-> config, df |-> frame, fs |-> files]
        ELSE LET final == Finalize(frame, config, np)
                 ready == get_data_ready_for_d3(frame)
             IN  [exc |-> "none", config |-> final, df |-> ready.df,
                  fs |-> write_html(ready.X, final, logger, files)]

----------------------------------------------------------------------------
(* A call of set_config on its own: every combination of overrides *)

\* one value other than the default for each keyword, and a keyword that
\* set_config does not know
OverrideValue ==
    [chart            |-> "other",
     title            |-> "T",
     filepath         |-> Path("out", ""),
     figsize          |-> <<Some(800), None>>,
     showfig          |-> FALSE,
     overwrite        |-> FALSE,
     bins             |-> 10,
     cmap             |-> "tab20",
     ylim             |-> <<None, Some(5)>>,
     x_order          |-> PyList(<<(<<"a">>)>>),
     reset_properties |-> FALSE,
     foo              |-> "bar"]

AllKwargs == {[k \in S |-> OverrideValue[k]] : S \in SUBSET (DOMAIN OverrideValue)}

\* a dict that an earlier set_config and show have filled
UsedConfig ==
    SetKey(SetKey(set_config(EmptyConfig, [k \in {"title", "bins"} |-> IF k = "title" THEN "Old" ELSE 5]),
                  "mouseover", ""), "ylim", <<Some(-1), Some(11)>>)

ConfigInit ==
    /\ LabelsIdle
    /\ EdgeIdle
    /\ SessionIdle
    /\ cpc = "call"
    /\ \E c \in {EmptyConfig, UsedConfig}, kw \in AllKwargs :
          cargs = [config |-> c, kwargs |-> kw]
    /\ cret = <<>>

CallSetConfigOnce ==
    /\ cpc = "call"
    /\ cpc' = "done"
    /\ cret' = set_config(cargs.config, cargs.kwargs)
    /\ UNCHANGED <<cargs, labelVars, edgeVars, sessionVars>>

ConfigNext == CallSetConfigOnce

SpecConfig == ConfigInit /\ [][ConfigNext]_vars

----------------------------------------------------------------------------
(* A session: set_config and show called in any order on the caller's objects *)

MaxCalls == 4

\* "default" is the dict that is the default value of set_config's parameter
\* `config` (one object, made when the function is defined); "caller" is a
\* dict the caller made and passes as config
ObjIds == {"default", "caller"}

SessionKwargs ==
    {[k \in S |-> OverrideValue[k]] :
        S \in {{}, {"ylim"}, {"figsize", "title"}, {"x_order", "overwrite"}}}
    \cup {[k \in {"ylim"} |-> <<>>], [k \in {"ylim"} |-> <<Some(0), Some(5)>>]}

SessionTooltips == {Some(""), None, Some("tip")}

\* the record sets and label properties the preparer and set_node_properties
\* give for two rows (none of them empty)
SessionInit ==
    /\ LabelsIdle
    /\ EdgeIdle
    /\ ConfigIdle
    /\ heap = [o \in ObjIds |-> EmptyConfig]
    /\ returned = {}
    /\ \E x \in {<<(<<"b">>), (<<"a">>)>>, <<(<<"a">>), (<<"a">>)>>},
          t1 \in SessionTooltips, t2 \in SessionTooltips :
          /\ df = set_edge_properties(
                    [x |-> x, y |-> <<Num(0), Num(10)>>,
                     config |-> set_config(EmptyConfig, <<>>),
                     color |-> ArgNone, size |-> Scalar(5), stroke |-> Scalar("#ffffff"),
                     opacity |-> Scalar("0.8"), tooltip |-> PerRow(<<t1, t2>>),
                     logger |-> "logger"]).val
          /\ node_properties = set_node_properties(x).val
    /\ fs = <<>>
    /\ last = [op |-> "none", obj |-> "none", exc |-> "none", again |-> FALSE]
    /\ calls = 0

\* config = set_config(**kw) (o = "default") or set_config(config=o, **kw)
CallSetConfig(o, kw) ==
    /\ calls < MaxCalls
    /\ heap' = [heap EXCEPT ![o] = set_config(heap[o], kw)]
    /\ returned' = returned \cup {o}
    /\ last' = [op |-> "set_config", obj |-> o, exc |-> "none", again |-> FALSE]
    /\ calls' = calls + 1
    /\ UNCHANGED <<df, node_properties, fs, labelVars, edgeVars, configVars>>

\* show(df, config=o, node_properties=node_properties)
CallShow(o) ==
    /\ calls < MaxCalls
    /\ o \in returned
    /\ LET r == show(df, heap[o], node_properties, "none", fs)
       IN  /\ heap' = [heap EXCEPT ![o] = r.config]
           /\ df' = r.df
           /\ fs' = r.fs
           /\ last' = [op |-> "show", obj |-> o, exc |-> r.exc,
                       again |-> last.op = "show" /\ last.obj = o /\ last.exc = "none"]
    /\ calls' = calls + 1
    /\ UNCHANGED <<returned, node_properties, labelVars, edgeVars, configVars>>

SessionNext ==
    \/ \E o \in ObjIds, kw \in SessionKwargs : CallSetConfig(o, kw)
    \/ \E o \in ObjIds : CallShow(o)

Spec == SessionInit /\ [][SessionNext]_vars

----------------------------------------------------------------------------
(* C8 *)

\* the defaults the documentation of set_config states
C8_Default ==
    [chart            |-> "violin",
     title            |-> "Violin - D3blocks",
     filepath         |-> [dirname |-> "", filename |-> "violin.html", normalized |-> TRUE],
     figsize          |-> <<None, None>>,
     showfig          |-> TRUE,
     overwrite        |-> TRUE,
     bins             |-> 20,
     cmap             |-> "inferno",
     ylim             |-> <<None, None>>,
     x_order          |-> XNone,
     reset_properties |-> TRUE]

\* the override given for k (a path as normalized), else the default
C8_OverrideOrDefault(k) ==
    IF k \in DOMAIN cargs.kwargs
    THEN IF k = "filepath"
         THEN [dirname |-> cargs.kwargs[k].dirname,
               filename |-> IF cargs.kwargs[k].filename = "" THEN "d3blocks.html"
                            ELSE cargs.kwargs[k].filename,
               normalized |-> TRUE]
         ELSE cargs.kwargs[k]
    ELSE C8_Default[k]

\* C8 as claimed: for every set of keyword overrides the record returned by
\* set_config holds every recognized option, chart included, with the override
\* when one was supplied and else the default.
C8_EveryOptionOverrideOrDefault ==
    cpc = "done" =>
        \A k \in DOMAIN C8_Default :
            k \in DOMAIN cret /\ cret[k] = C8_OverrideOrDefault(k)

\* C8 as amended: the record holds every recognized option; chart is always
\* "violin", whatever override was supplied for it; every other option holds
\* the override when one was supplied (filepath: the override normalized by
\* set_path) and else the default.
C8_EveryOptionExceptChart ==
    cpc = "done" =>
        /\ \A k \in DOMAIN C8_Default : k \in DOMAIN cret
        /\ cret["chart"] = "violin"
        /\ \A k \in (DOMAIN C8_Default) \ {"chart"} : cret[k] = C8_OverrideOrDefault(k)

\* a call that overrides chart and title and leaves bins to its default
C8_Witness ==
    /\ cpc = "done"
    /\ DOMAIN cargs.kwargs = {"chart", "title"}
    /\ cargs.kwargs["chart"] = "other"
    /\ cret["chart"] = "violin"
    /\ cret["title"] = "T"
    /\ cret["bins"] = 20

----------------------------------------------------------------------------
(* C5, C6, C7, C9, C10 *)

\* this step is a call of show on the dict o that returned
ShowReturned(o) ==
    calls' = calls + 1 /\ last'.op = "show" /\ last'.obj = o /\ last'.exc = "none"

\* C5: the configuration show returns has figsize[0], figsize[1], ylim[0],
\* ylim[1] and x_order non-null, whatever set_config produced (a ylim or
\* figsize pair with one null element included); from ylim [null, null] or
\* empty the result is [min - (max - min) * 0.10, max + (max - min) * 0.10];
\* figsize[0] defaults to 95 times the number of labels, figsize[1] to 400.
C5_AutoFieldsConcrete ==
    [][\A o \in ObjIds : ShowReturned(o) =>
        LET before == heap[o]
            after  == heap'[o]
            ys     == {df[i].y.v : i \in 1..Len(df)}
            mn     == CHOOSE m \in ys : \A y \in ys : m <= y
            mx     == CHOOSE m \in ys : \A y \in ys : y <= m
        IN  /\ Len(after["ylim"]) = 2
            /\ after["ylim"][1] # None
            /\ after["ylim"][2] # None
            /\ after["figsize"][1] # None
            /\ after["figsize"][2] # None
            /\ after["x_order"].t # "none"
            /\ (before["ylim"] \in {<<None, None>>, <<>>}) =>
                  /\ 10 * after["ylim"][1][1] = 10 * mn - (mx - mn)
                  /\ 10 * after["ylim"][2][1] = 10 * mx + (mx - mn)
            /\ (before["figsize"][1] = None) =>
                  after["figsize"][1] = Some(95 * Len(node_properties.keys))
            /\ (before["figsize"][2] = None) => after["figsize"][2] = Some(400)
      ]_vars

\* C6: after show, mouseover, mousemove and mouseleave are all the empty
\* string if and only if every row's tooltip is empty or null (rows with an
\* empty tooltip and rows with a null one mixed included); otherwise all three
\* are their event-binding snippets.
C6_TooltipBindings ==
    (last.op = "show" /\ last.exc = "none") =>
        LET c        == heap[last.obj]
            allEmpty == \A i \in 1..Len(df) : df[i].tooltip \in {None, Some("")}
        IN  IF allEmpty
            THEN c["mouseover"] = "" /\ c["mousemove"] = "" /\ c["mouseleave"] = ""
            ELSE /\ c["mouseover"] = ".on(\"mouseover\", mouseover)"
                 /\ c["mousemove"] = ".on(\"mousemove\", mousemove)"
                 /\ c["mouseleave"] = ".on(\"mouseleave\", mouseleave)"

\* C7: a call of show that follows at once a call of show that returned, on
\* the same configuration dict, record set and label properties, returns too
\* and leaves the contents of the output file as the first call left them;
\* and a call of show on a record set no show has touched returns.
C7_ShowTwice ==
    [][\A o \in ObjIds :
        (calls' = calls + 1 /\ last'.op = "show" /\ last'.obj = o) =>
            /\ (last.op = "show" /\ last.obj = o /\ last.exc = "none") =>
                  /\ last'.exc = "none"
                  /\ heap'[o]["filepath"] \in DOMAIN fs'
                  /\ heap[o]["filepath"] \in DOMAIN fs
                  /\ fs'[heap'[o]["filepath"]] = fs[heap[o]["filepath"]]
            /\ (\A i \in 1..Len(df) : df[i].y.kind = "num") => last'.exc = "none"
      ]_vars

\* the second of two calls in a row has returned, on a configuration whose
\* ylim and x_order the first call computed and a record set whose y the
\* first call coerced to str
C7_Witness ==
    /\ last.op = "show"
    /\ last.again
    /\ last.exc = "none"
    /\ heap[last.obj]["ylim"] = <<Some(-1), Some(11)>>
    /\ heap[last.obj]["x_order"].t = "str"
    /\ \A i \in 1..Len(df) : df[i].y.kind = "str"
    /\ heap[last.obj]["filepath"] \in DOMAIN fs

\* C9 (calls without a config argument): a call of set_config changes no
\* configuration record that an earlier call of set_config returned.
C9_ReturnedRecordsUnchanged ==
    [][(calls' = calls + 1 /\ last'.op = "set_config" /\ last'.obj = "default") =>
          \A o \in returned : heap'[o] = heap[o]
      ]_vars

\* C10: from x_order null, show sets config.x_order to the list of the keys of
\* node_properties in insertion order, a list like one the caller supplies;
\* an x_order that is not null is left as it is.
C10_XOrderIsKeyList ==
    [][\A o \in ObjIds : ShowReturned(o) =>
          IF heap[o]["x_order"].t = "none"
          THEN /\ heap'[o]["x_order"].t = "list"
               /\ heap'[o]["x_order"].v = node_properties.keys
          ELSE heap'[o]["x_order"] = heap[o]["x_order"]
      ]_vars

====
